---- MODULE Spec2Model ----
(***************************************************************************)
(* aiquota: the quota aggregation engine (cmd/aiquota/main.go), the three  *)
(* provider adapters (copilot, zai, codex) and the normalisation helpers.  *)
(*                                                                         *)
(* Representation                                                          *)
(*   - a Go string that the code inspects character by character (a       *)
(*     credential) is a sequence of one-character strings;                 *)
(*   - a *string is a sequence of length 0 (nil) or 1 (pointer to value);  *)
(*   - a float64 is a record [c, v]: c is "fin", "nan", "pinf" or "ninf"   *)
(*     and v the value in thousandths (0 when c is not "fin");             *)
(*   - a text value that may hold an RFC3339 timestamp is a record         *)
(*     [text, ts]: ts is <<>> when the text is no RFC3339 timestamp and    *)
(*     <<d, s>> when it is: the instant is second s (0..86399) of day d,   *)
(*     days counted from 1970-01-01;                                       *)
(*   - a time.Duration is a pair <<d, s>> too: d days (negative for a      *)
(*     negative duration) plus s seconds, 0 <= s < 86400.                  *)
(***************************************************************************)
EXTENDS Integers, Sequences, FiniteSets, TLC

VARIABLES
    credsErr,     \* GetCredentials returned an error
    creds,        \* credentials.Credentials
    rpc,          \* position of run()/main()
    taskpc,       \* position of each provider's goroutine
    responses,    \* HTTP response each provider's call got, <<>> before it
    result,       \* (quota, err) returned by each provider's GetQuota
    local,        \* the slice append() read, in each goroutine
    mu,           \* sync.Mutex: "free" or the provider holding it
    wg,           \* sync.WaitGroup counter
    warnings,     \* []string of run()
    out,          \* copilotOut / zaiOut / codexOut of run()
    requests,     \* HTTP requests sent per provider (http.DefaultClient.Do)
    invoked,      \* GetQuota invocations per provider
    ret,          \* error returned by run(), NoErr for nil
    report,       \* arguments printReport was called with, <<>> if not called
    stderr,       \* the errors main printed to standard error ("Error: %v")
    exitCode,     \* process exit code, -1 while running
    call          \* a helper function called on its own: arguments and result

vars == <<credsErr, creds, rpc, taskpc, responses, result, local, mu, wg,
          warnings, out, requests, invoked, ret, report, stderr, exitCode,
          call>>

(***************************************************************************)
(* Bounds of the model.                                                    *)
(***************************************************************************)
MaxCredLen == 1      \* longest credential string drawn

(***************************************************************************)
(* Providers, in the order run() dispatches them.                          *)
(***************************************************************************)
Providers == {"copilot", "zai", "codex"}

Label(p) ==
    CASE p = "copilot" -> "GitHub Copilot"
      [] p = "zai"     -> "Z.ai"
      [] p = "codex"   -> "OpenAI Codex"

(***************************************************************************)
(* Strings and optional strings.                                           *)
(***************************************************************************)
Nil == <<>>
Ptr(s) == <<s>>
Deref(p) == p[1]

Alphabet == {" ", "k"}
IsSpace(c) == c \in {" ", "\t", "\n", "\r"}

Strs(n) == UNION {[1..k -> Alphabet] : k \in 0..n}

RECURSIVE TrimLeft(_)
TrimLeft(s) ==
    IF s = <<>> THEN s
    ELSE IF IsSpace(Head(s)) THEN TrimLeft(Tail(s)) ELSE s

RECURSIVE TrimRight(_)
TrimRight(s) ==
    IF s = <<>> THEN s
    ELSE IF IsSpace(s[Len(s)]) THEN TrimRight(SubSeq(s, 1, Len(s) - 1)) ELSE s

TrimSpace(s) == TrimRight(TrimLeft(s))

stringValue(value) == IF value = Nil THEN <<>> ELSE Deref(value)

(***************************************************************************)
(* hasCredential (main.go): the pointer is non-nil and the string it points *)
(* to is non-empty after strings.TrimSpace.                                *)
(***************************************************************************)
hasCredential_NoTrim(value) == value # Nil /\ Deref(value) # <<>>

hasCredential_NilOnly(value) == value # Nil

hasCredential(value) == value # Nil /\ TrimSpace(Deref(value)) # <<>>

KeyOf(c, p) ==
    CASE p = "copilot" -> c.CopilotAPIKey
      [] p = "zai"     -> c.ZAIAPIKey
      [] p = "codex"   -> c.CodexAPIKey

(***************************************************************************)
(* float64 values and the arithmetic the adapters do on them.              *)
(***************************************************************************)
Fin(v) == [c |-> "fin", v |-> v]
NaN == [c |-> "nan", v |-> 0]
PInf == [c |-> "pinf", v |-> 0]
NInf == [c |-> "ninf", v |-> 0]

IsNaN(x) == x.c = "nan"
IsInf(x) == x.c \in {"pinf", "ninf"}
IsFin(x) == x.c = "fin"

\* 100 - x
HundredMinus(x) ==
    CASE x.c = "fin"  -> Fin(100000 - x.v)
      [] x.c = "nan"  -> NaN
      [] x.c = "pinf" -> NInf
      [] x.c = "ninf" -> PInf

\* the Go builtin max(0.0, x): NaN if x is NaN
MaxZero(x) ==
    CASE x.c = "fin"  -> Fin(IF x.v > 0 THEN x.v ELSE 0)
      [] x.c = "nan"  -> NaN
      [] x.c = "pinf" -> PInf
      [] x.c = "ninf" -> Fin(0)

\* truncation toward zero (a float64 to int64 conversion), floor division
Trunc(v, d) == IF v >= 0 THEN v \div d ELSE -((-v) \div d)
FloorDiv(v, d) == v \div d

\* math.Round(value*100) / 100 on thousandths: half away from zero
RoundHundredths(v) ==
    IF v >= 0 THEN ((v + 5) \div 10) * 10 ELSE -(((-v) + 5) \div 10) * 10

Min2(a, b) == IF a < b THEN a ELSE b
Max2(a, b) == IF a > b THEN a ELSE b

(***************************************************************************)
(* helpers.ClampPercent                                                    *)
(***************************************************************************)
ClampPercent(value) ==
    IF IsNaN(value) \/ IsInf(value) THEN Fin(0)
    ELSE LET rounded == RoundHundredths(value.v)
         IN  Fin(Min2(100000, Max2(0, rounded)))

(***************************************************************************)
(* Text values; timestamps.                                                *)
(***************************************************************************)
Text(t) == [text |-> t, ts |-> <<>>]
Instant(day, sec) == [text |-> "rfc3339", ts |-> <<day, sec>>]
ISO(secs) == Instant(secs \div 86400, secs % 86400)
Unknown == Text("unknown")

\* helpers.UnixSecondsToISO: time.Unix(int64(value), 0).UTC().Format(RFC3339)
UnixSecondsToISO(value) ==
    IF IsNaN(value) \/ IsInf(value) THEN Unknown
    ELSE ISO(Trunc(value.v, 1000))

\* helpers.UnixMillisToISO: time.UnixMilli(int64(value)).UTC().Format(RFC3339);
\* the format keeps whole seconds only
UnixMillisToISO(value) ==
    IF IsNaN(value) \/ IsInf(value) THEN Unknown
    ELSE ISO(FloorDiv(Trunc(value.v, 1000), 1000))

\* the strings FormatTimeUntil returns: "unknown", "now", "<a>d <b>h",
\* "<a>h <b>m", "<a>m"
Dur(form, a, b) == [form |-> form, a |-> a, b |-> b]

\* time.Duration is an int64 of nanoseconds: the largest is 2^63 - 1 ns =
\* 106751 days 23h 47m 16.854775807s, the smallest -2^63 ns; the model's
\* instants are whole seconds
MaxDuration == <<106751, 85636>>
MinDuration == <<-106752, 763>>

Longer(d, e) == d[1] > e[1] \/ (d[1] = e[1] /\ d[2] > e[2])

\* time.Until(t) = t.Sub(time.Now()): the difference, or the largest
\* (smallest) Duration when the difference does not fit; now is the clock
\* reading in seconds since the epoch
Until(t, now) ==
    LET s == t[2] - (now % 86400)
        d == t[1] - (now \div 86400)
        diff == IF s < 0 THEN <<d - 1, s + 86400>> ELSE <<d, s>>
    IN  IF Longer(diff, MaxDuration) THEN MaxDuration
        ELSE IF Longer(MinDuration, diff) THEN MinDuration
        ELSE diff

\* math.Floor(d.Minutes())
FloorMinutes(d) == (d[1] * 1440) + (d[2] \div 60)

\* helpers.FormatTimeUntil
FormatTimeUntil_CeilMinutes(dateISO, now) ==
    IF dateISO.ts = <<>> THEN Dur("unknown", 0, 0)
    ELSE LET diff == Until(dateISO.ts, now)
             totalMinutes == (diff[1] * 1440) + ((diff[2] + 59) \div 60)
             days == totalMinutes \div 1440
             hours == (totalMinutes % 1440) \div 60
             minutes == totalMinutes % 60
         IN  IF ~Longer(diff, <<0, 0>>) THEN Dur("now", 0, 0)
             ELSE IF days > 0 THEN Dur("dh", days, hours)
             ELSE IF hours > 0 THEN Dur("hm", hours, minutes)
             ELSE Dur("m", minutes, 0)

FormatTimeUntil(dateISO, now) ==
    IF dateISO.ts = <<>> THEN Dur("unknown", 0, 0)
    ELSE LET diff == Until(dateISO.ts, now)
             totalMinutes == FloorMinutes(diff)
             days == totalMinutes \div 1440
             hours == (totalMinutes % 1440) \div 60
             minutes == totalMinutes % 60
         IN  IF ~Longer(diff, <<0, 0>>) THEN Dur("now", 0, 0)
             ELSE IF days > 0 THEN Dur("dh", days, hours)
             ELSE IF hours > 0 THEN Dur("hm", hours, minutes)
             ELSE Dur("m", minutes, 0)

(***************************************************************************)
(* gjson results.  k is the JSON kind of the value found at a path, or     *)
(* "missing" when the path does not exist (gjson.Result{}).                *)
(***************************************************************************)
JVal(k, f, s) == [k |-> k, f |-> f, s |-> s]
JMissing == JVal("missing", Fin(0), Text(""))
JNull == JVal("null", Fin(0), Text(""))
JTrue == JVal("true", Fin(0), Text(""))
JFalse == JVal("false", Fin(0), Text(""))
JNum(f) == JVal("num", f, Text(""))
JStr(s) == JVal("str", Fin(0), s)
JObj == JVal("json", Fin(0), Text(""))

\* Result.Exists, and the test Type == gjson.Null
JExists(r) == r.k # "missing"
JIsNull(r) == r.k \in {"missing", "null"}

\* strconv.ParseFloat on the texts the model draws; 0 on a syntax error
ParseFloat(s) ==
    CASE s.text = "NaN"  -> NaN
      [] s.text = "Inf"  -> PInf
      [] s.text = "42.5" -> Fin(42500)
      [] OTHER           -> Fin(0)

\* Result.Float
JFloat(r) ==
    CASE r.k = "num"  -> r.f
      [] r.k = "str"  -> ParseFloat(r.s)
      [] r.k = "true" -> Fin(1000)
      [] OTHER        -> Fin(0)

\* Result.Int, for the finite numbers the model draws for counts
JInt(r) ==
    CASE r.k = "num" /\ IsFin(r.f) -> Trunc(r.f.v, 1000)
      [] r.k = "true"              -> 1
      [] r.k \in {"missing", "null", "false", "json", "str"} -> 0

\* Result.String
JString(r) ==
    CASE r.k = "str"   -> r.s
      [] r.k = "true"  -> Text("true")
      [] r.k = "false" -> Text("false")
      [] r.k = "num"   -> Text("<number>")
      [] r.k = "json"  -> Text("<raw json>")
      [] OTHER         -> Text("")

\* Result.Bool
JBool(r) ==
    CASE r.k = "true" -> TRUE
      [] r.k = "str"  -> r.s.text \in {"true", "t", "1"}
      [] r.k = "num"  -> r.f # Fin(0)
      [] OTHER        -> FALSE

(***************************************************************************)
(* HTTP responses.  transport is "ok", "error" (http.DefaultClient.Do      *)
(* failed) or "readerror" (io.ReadAll failed).  A body that is not JSON    *)
(* has valid = FALSE: gjson finds no path in it.                           *)
(***************************************************************************)
Response(transport, status, body) ==
    [transport |-> transport, status |-> status, body |-> body]

Err(msg, code, text) == [msg |-> msg, code |-> code, text |-> text]

Ok(quota) == [quota |-> <<quota>>, err |-> <<>>]
Fail(e) == [quota |-> <<>>, err |-> <<e>>]
NoResult == [quota |-> <<>>, err |-> <<>>]

Is2xx(status) == ~(status < 200 \/ status >= 300)

\* the part every adapter shares: Do, io.ReadAll and the status test
\* return the error if there is one
HttpFailure(name, response) ==
    IF response.transport = "error"
      THEN <<Err("failed to fetch quota: %w", 0, Text(name))>>
    ELSE IF response.transport = "readerror"
      THEN <<Err("failed to read response: %w", 0, Text(name))>>
    ELSE IF ~Is2xx(response.status)
      THEN <<Err("failed to fetch quota. Status: %d, Response: %s",
                 response.status, Text(name))>>
    ELSE <<>>

(***************************************************************************)
(* copilot.GetQuota.  It has no credential test: the request is built from *)
(* stringValue(creds.CopilotAPIKey) and always sent.                       *)
(***************************************************************************)
CopilotBody(valid, login, sku, entitlement, remaining, percent, reset) ==
    [valid |-> valid, login |-> login, access_type_sku |-> sku,
     entitlement |-> entitlement, remaining |-> remaining,
     percent_remaining |-> percent, quota_reset_date_utc |-> reset]

CopilotGet(body, path) == IF body.valid THEN body[path] ELSE JMissing

CopilotPrecheck(c) == <<>>

CopilotRequest(c) ==
    [authorization |-> stringValue(c.CopilotAPIKey), account |-> Nil]

CopilotParse(body, now) ==
    LET total == JInt(CopilotGet(body, "entitlement"))
        remaining == JInt(CopilotGet(body, "remaining"))
        remainingPercent == JFloat(CopilotGet(body, "percent_remaining"))
        used == Max2(0, total - remaining)
        usedPercent == MaxZero(HundredMinus(remainingPercent))
        resetAt == JString(CopilotGet(body, "quota_reset_date_utc"))
    IN  [AccountUser |-> JString(CopilotGet(body, "login")),
         AccountType |-> JString(CopilotGet(body, "access_type_sku")),
         RequestsTotal |-> total,
         RequestsUsed |-> used,
         RequestsUsedPercent |-> usedPercent,
         RequestsRemaining |-> remaining,
         RequestsRemainingPercent |-> remainingPercent,
         ResetAt |-> resetAt,
         ResetIn |-> FormatTimeUntil(resetAt, now)]

CopilotFinish(c, response, now) ==
    LET e == HttpFailure("GitHub Copilot", response)
    IN  IF e # <<>> THEN Fail(e[1]) ELSE Ok(CopilotParse(response.body, now))

(***************************************************************************)
(* zai.GetQuota                                                            *)
(***************************************************************************)
Limit(type, nextResetTime, percentage, usageDetails) ==
    [type |-> type, nextResetTime |-> nextResetTime,
     percentage |-> percentage, usageDetails |-> usageDetails]

\* gjson.Result{}: every Get on it finds nothing
NoLimit == Limit(JMissing, JMissing, JMissing, <<>>)

ZaiBody(valid, success, code, msg, level, limits) ==
    [valid |-> valid, success |-> success, code |-> code, msg |-> msg,
     level |-> level, limits |-> limits]

ZaiGet(body, path) == IF body.valid THEN body[path] ELSE JMissing
ZaiLimits(body) == IF body.valid THEN body.limits ELSE <<>>

RECURSIVE findLimitByType(_, _)
findLimitByType(limits, limitType) ==
    IF limits = <<>> THEN NoLimit
    ELSE IF JString(Head(limits).type) = Text(limitType) THEN Head(limits)
    ELSE findLimitByType(Tail(limits), limitType)

unixMillisResultToISO(value) ==
    IF ~JExists(value) \/ JIsNull(value) THEN Unknown
    ELSE UnixMillisToISO(JFloat(value))

parseUsageDetails(details) ==
    [i \in 1..Len(details) |->
        [ModelCode |-> JString(details[i].modelCode),
         Usage |-> JFloat(details[i].usage)]]

Stars == [i \in 1..8 |-> "*"]
Dots == [i \in 1..3 |-> "."]

maskToken(token) ==
    IF Len(token) <= 8 THEN Stars
    ELSE SubSeq(token, 1, 6) \o Dots \o SubSeq(token, Len(token) - 3, Len(token))

ZaiPrecheck(c) ==
    IF c.ZAIAPIKey = Nil \/ Deref(c.ZAIAPIKey) = <<>>
      THEN <<Err("missing Z.ai API key in credentials", 0, Text(""))>>
    ELSE <<>>

ZaiRequest(c) == [authorization |-> Deref(c.ZAIAPIKey), account |-> Nil]

ZaiParse(c, body, now) ==
    LET limits == ZaiLimits(body)
        tokenLimit == findLimitByType(limits, "TOKENS_LIMIT")
        timeLimit == findLimitByType(limits, "TIME_LIMIT")
        tokenResetAt == unixMillisResultToISO(tokenLimit.nextResetTime)
        tokenUsedPercent == ClampPercent(JFloat(tokenLimit.percentage))
        mcpResetAt == unixMillisResultToISO(timeLimit.nextResetTime)
        mcpUsedPercent == ClampPercent(JFloat(timeLimit.percentage))
    IN  [AccountID |-> maskToken(Deref(c.ZAIAPIKey)),
         AccountType |-> JString(ZaiGet(body, "level")),
         TokenQuota |->
            [UsedPercent |-> tokenUsedPercent,
             RemainingPercent |-> ClampPercent(HundredMinus(tokenUsedPercent)),
             ResetAt |-> tokenResetAt,
             ResetIn |-> FormatTimeUntil(tokenResetAt, now)],
         MCPQuota |->
            [UsedPercent |-> mcpUsedPercent,
             RemainingPercent |-> ClampPercent(HundredMinus(mcpUsedPercent)),
             ResetAt |-> mcpResetAt,
             ResetIn |-> FormatTimeUntil(mcpResetAt, now),
             Details |-> parseUsageDetails(timeLimit.usageDetails)]]

ZaiFinish(c, response, now) ==
    LET e == HttpFailure("Z.ai", response)
        body == response.body
    IN  IF e # <<>> THEN Fail(e[1])
        ELSE IF ~JBool(ZaiGet(body, "success")) \/ JInt(ZaiGet(body, "code")) # 200
          THEN Fail(Err("failed to fetch Z.ai quota. Code: %d, Message: %s",
                        JInt(ZaiGet(body, "code")), JString(ZaiGet(body, "msg"))))
        ELSE Ok(ZaiParse(c, body, now))

(***************************************************************************)
(* codex.GetQuota                                                          *)
(***************************************************************************)
\* the value at a window path: k is "missing", "null", "obj" or "scalar"
Window(k, used_percent, reset_at) ==
    [k |-> k, used_percent |-> used_percent, reset_at |-> reset_at]
WMissing == Window("missing", JMissing, JMissing)
WNull == Window("null", JMissing, JMissing)

WExists(w) == w.k # "missing"
WIsNull(w) == w.k \in {"missing", "null"}
WGet(w, path) == IF w.k = "obj" THEN w[path] ELSE JMissing

CodexBody(valid, email, plan, primary, secondary, review) ==
    [valid |-> valid, email |-> email, plan_type |-> plan,
     primary_window |-> primary, secondary_window |-> secondary,
     code_review_window |-> review]

CodexGet(body, path) == IF body.valid THEN body[path] ELSE JMissing
CodexWindow(body, path) == IF body.valid THEN body[path] ELSE WMissing

\* RateLimitWindow{}: the four pointers are nil
EmptyWindow ==
    [UsedPercent |-> <<>>, RemainingPercent |-> <<>>,
     ResetAt |-> <<>>, ResetIn |-> <<>>]

unixSecondsResultToISO(value) ==
    IF ~JExists(value) \/ JIsNull(value) THEN Unknown
    ELSE UnixSecondsToISO(JFloat(value))

parseWindow(window, now) ==
    LET usedPercent == ClampPercent(JFloat(WGet(window, "used_percent")))
        remainingPercent == ClampPercent(HundredMinus(usedPercent))
        resetAt == unixSecondsResultToISO(WGet(window, "reset_at"))
        resetIn == FormatTimeUntil(resetAt, now)
    IN  [UsedPercent |-> <<usedPercent>>,
         RemainingPercent |-> <<remainingPercent>>,
         ResetAt |-> <<resetAt>>,
         ResetIn |-> <<resetIn>>]

CodexPrecheck(c) ==
    IF c.CodexAPIKey = Nil \/ Deref(c.CodexAPIKey) = <<>>
      THEN <<Err("missing Codex API key in credentials", 0, Text(""))>>
    ELSE <<>>

CodexRequest(c) ==
    [authorization |-> Deref(c.CodexAPIKey),
     account |-> IF c.CodexAccountID # Nil /\ Deref(c.CodexAccountID) # <<>>
                   THEN c.CodexAccountID ELSE Nil]

CodexParse(body, now) ==
    LET primary == CodexWindow(body, "primary_window")
        secondary == CodexWindow(body, "secondary_window")
        codeReview == CodexWindow(body, "code_review_window")
        WindowOf(w) ==
            IF WExists(w) /\ ~WIsNull(w) THEN parseWindow(w, now) ELSE EmptyWindow
    IN  [AccountEmail |-> JString(CodexGet(body, "email")),
         AccountType |-> JString(CodexGet(body, "plan_type")),
         RateLimitPrimaryWindow |-> WindowOf(primary),
         RateLimitSecondaryWindow |-> WindowOf(secondary),
         CodeReviewPrimaryWindow |-> WindowOf(codeReview)]

CodexFinish(c, response, now) ==
    LET e == HttpFailure("Codex", response)
    IN  IF e # <<>> THEN Fail(e[1]) ELSE Ok(CodexParse(response.body, now))

(***************************************************************************)
(* GetQuota of provider p, in its two halves: up to the network call, and  *)
(* from the response on.                                                   *)
(***************************************************************************)
Precheck(p, c) ==
    CASE p = "copilot" -> CopilotPrecheck(c)
      [] p = "zai"     -> ZaiPrecheck(c)
      [] p = "codex"   -> CodexPrecheck(c)

Request(p, c) ==
    CASE p = "copilot" -> CopilotRequest(c)
      [] p = "zai"     -> ZaiRequest(c)
      [] p = "codex"   -> CodexRequest(c)

Finish(p, c, response, now) ==
    CASE p = "copilot" -> CopilotFinish(c, response, now)
      [] p = "zai"     -> ZaiFinish(c, response, now)
      [] p = "codex"   -> CodexFinish(c, response, now)

(***************************************************************************)
(* Inputs: credential sets and the responses a provider may give.          *)
(***************************************************************************)
Keys == {Nil} \cup {Ptr(s) : s \in Strs(MaxCredLen)}
AccountIDs == {Nil, Ptr(<<"k">>)}

Credentials(copilot, zai, codex, account) ==
    [CopilotAPIKey |-> copilot, ZAIAPIKey |-> zai, CodexAPIKey |-> codex,
     CodexAccountID |-> account]

\* Credentials{}, what GetCredentials returns with an error
NoCredentialsLoaded == Credentials(Nil, Nil, Nil, Nil)

AllCredentials ==
    {Credentials(a, b, c, d) : a \in Keys, b \in Keys, c \in Keys, d \in AccountIDs}

GarbageCopilot ==
    CopilotBody(FALSE, JMissing, JMissing, JMissing, JMissing, JMissing, JMissing)
GarbageZai == ZaiBody(FALSE, JMissing, JMissing, JMissing, JMissing, <<>>)
GarbageCodex == CodexBody(FALSE, JMissing, JMissing, WMissing, WMissing, WMissing)

Garbage(p) ==
    CASE p = "copilot" -> GarbageCopilot
      [] p = "zai"     -> GarbageZai
      [] p = "codex"   -> GarbageCodex

GoodCopilot ==
    CopilotBody(TRUE, JStr(Text("octocat")), JStr(Text("pro")),
                JNum(Fin(300000)), JNum(Fin(100000)), JNum(Fin(33330)),
                JStr(ISO(5400)))
GoodZai ==
    ZaiBody(TRUE, JTrue, JNum(Fin(200000)), JStr(Text("ok")), JStr(Text("pro")),
            << Limit(JStr(Text("TIME_LIMIT")), JNum(Fin(1800500000)),
                     JNum(Fin(10000)),
                     << [modelCode |-> JStr(Text("search")), usage |-> JNum(Fin(3000))] >>),
               Limit(JStr(Text("TOKENS_LIMIT")), JNum(Fin(90500000)),
                     JNum(Fin(42420)), <<>>) >>)
GoodCodex ==
    CodexBody(TRUE, JStr(Text("a@b.c")), JStr(Text("plus")),
              Window("obj", JNum(Fin(25000)), JNum(Fin(5400000))),
              Window("obj", JNum(Fin(0)), JNum(Fin(90000000))),
              WMissing)

Good(p) ==
    CASE p = "copilot" -> GoodCopilot
      [] p = "zai"     -> GoodZai
      [] p = "codex"   -> GoodCodex

\* the responses drawn while the engine runs
EngineResponses(p) ==
    { Response("error", 0, Garbage(p)),
      Response("ok", 500, Garbage(p)),
      Response("ok", 200, Garbage(p)),
      Response("ok", 200, Good(p)) }

EngineNows == {0}

(***************************************************************************)
(* run() and main() of cmd/aiquota/main.go                                 *)
(***************************************************************************)
\* an error value of run(): its message and the values formatted into it
RunError(msg, args) == [msg |-> msg, args |-> args]
NoErr == RunError("nil", <<>>)

\* no helper function has been called on its own
NoCall == [fn |-> "none"]
ErrLoad ==
    RunError("failed to read auth file. error details: %w",
             << [label |-> "auth.json", err |-> Err("read", 0, Text(""))] >>)
ErrNoCredentials == RunError("no provider credentials found in auth.json", <<>>)
ErrAllFailed == RunError("could not fetch quota data from any provider", <<>>)

Init ==
    /\ credsErr \in BOOLEAN
    /\ creds \in AllCredentials
    /\ credsErr => creds = NoCredentialsLoaded
    /\ rpc = "start"
    /\ taskpc = [p \in Providers |-> "idle"]
    /\ responses = [p \in Providers |-> <<>>]
    /\ result = [p \in Providers |-> NoResult]
    /\ local = [p \in Providers |-> <<>>]
    /\ mu = "free"
    /\ wg = 0
    /\ warnings = <<>>
    /\ out = [p \in Providers |-> Nil]
    /\ requests = [p \in Providers |-> <<>>]
    /\ invoked = [p \in Providers |-> 0]
    /\ ret = NoErr
    /\ report = <<>>
    /\ stderr = <<>>
    /\ exitCode = -1
    /\ call = NoCall

\* run(), from GetCredentials to the test that some provider is configured
RunStart ==
    /\ rpc = "start"
    /\ IF credsErr
         THEN ret' = ErrLoad /\ rpc' = "returned"
       ELSE IF /\ ~hasCredential(creds.CopilotAPIKey)
               /\ ~hasCredential(creds.ZAIAPIKey)
               /\ ~hasCredential(creds.CodexAPIKey)
         THEN ret' = ErrNoCredentials /\ rpc' = "returned"
       ELSE ret' = ret /\ rpc' = "go_copilot"
    /\ UNCHANGED <<call, credsErr, creds, taskpc, responses, result, local, mu, wg,
                   warnings, out, requests, invoked, report, stderr, exitCode>>

\* if has<P> { wg.Go(func() {...}) }
Dispatch(p, at, next) ==
    /\ rpc = at
    /\ rpc' = next
    /\ IF hasCredential(KeyOf(creds, p))
         THEN /\ wg' = wg + 1
              /\ taskpc' = [taskpc EXCEPT ![p] = "spawned"]
         ELSE UNCHANGED <<wg, taskpc>>
    /\ UNCHANGED <<call, credsErr, creds, responses, result, local, mu, warnings, out,
                   requests, invoked, ret, report, stderr, exitCode>>

GoCopilot == Dispatch("copilot", "go_copilot", "go_zai")
GoZAI == Dispatch("zai", "go_zai", "go_codex")
GoCodex == Dispatch("codex", "go_codex", "wait")

\* wg.Wait() returns when the counter is zero
WaitReturns_NoJoin(counter) == TRUE

WaitReturns(counter) == counter = 0

Wait ==
    /\ rpc = "wait"
    /\ WaitReturns(wg)
    /\ rpc' = "joined"
    /\ UNCHANGED <<call, credsErr, creds, taskpc, responses, result, local, mu, wg,
                   warnings, out, requests, invoked, ret, report, stderr, exitCode>>

\* what run() returns once joined; printReport's arguments
Outcome_FailsOnAnyFailure(o, w) ==
    IF o["copilot"] = Nil \/ o["zai"] = Nil \/ o["codex"] = Nil
      THEN [err |-> ErrAllFailed, report |-> <<>>]
    ELSE [err |-> NoErr,
          report |-> << [copilotOut |-> o["copilot"], zaiOut |-> o["zai"],
                         codexOut |-> o["codex"], warnings |-> w] >>]

Outcome(o, w) ==
    IF o["copilot"] = Nil /\ o["zai"] = Nil /\ o["codex"] = Nil
      THEN [err |-> ErrAllFailed, report |-> <<>>]
    ELSE [err |-> NoErr,
          report |-> << [copilotOut |-> o["copilot"], zaiOut |-> o["zai"],
                         codexOut |-> o["codex"], warnings |-> w] >>]

Produce ==
    /\ rpc = "joined"
    /\ ret' = Outcome(out, warnings).err
    /\ report' = Outcome(out, warnings).report
    /\ rpc' = "returned"
    /\ UNCHANGED <<call, credsErr, creds, taskpc, responses, result, local, mu, wg,
                   warnings, out, requests, invoked, stderr, exitCode>>

\* main(): if err := run(); err != nil { Fprintf(os.Stderr, ...); os.Exit(1) }
MainExit ==
    /\ rpc = "returned"
    /\ rpc' = "exit"
    /\ IF ret # NoErr
         THEN stderr' = <<ret>> /\ exitCode' = 1
         ELSE stderr' = stderr /\ exitCode' = 0
    /\ UNCHANGED <<call, credsErr, creds, taskpc, responses, result, local, mu, wg,
                   warnings, out, requests, invoked, ret, report>>

(***************************************************************************)
(* The goroutine of provider p.                                            *)
(***************************************************************************)
\* GetQuota up to http.DefaultClient.Do
Invoke(p) ==
    /\ taskpc[p] = "spawned"
    /\ invoked' = [invoked EXCEPT ![p] = @ + 1]
    /\ IF Precheck(p, creds) # <<>>
         THEN /\ result' = [result EXCEPT ![p] = Fail(Precheck(p, creds)[1])]
              /\ taskpc' = [taskpc EXCEPT ![p] = "returned"]
              /\ UNCHANGED requests
         ELSE /\ requests' = [requests EXCEPT ![p] = Append(@, Request(p, creds))]
              /\ taskpc' = [taskpc EXCEPT ![p] = "calling"]
              /\ UNCHANGED result
    /\ UNCHANGED <<call, credsErr, creds, rpc, responses, local, mu, wg, warnings, out,
                   ret, report, stderr, exitCode>>

\* the call returns with resp and GetQuota runs to its return
Complete(p, resp, now) ==
    /\ taskpc[p] = "calling"
    /\ responses' = [responses EXCEPT ![p] = <<resp>>]
    /\ result' = [result EXCEPT ![p] = Finish(p, creds, resp, now)]
    /\ taskpc' = [taskpc EXCEPT ![p] = "returned"]
    /\ UNCHANGED <<call, credsErr, creds, rpc, local, mu, wg, warnings, out, requests,
                   invoked, ret, report, stderr, exitCode>>

NetReturn(p) == \E resp \in EngineResponses(p), now \in EngineNows : Complete(p, resp, now)

\* mu.Lock() returns when no goroutine holds the mutex
LockAcquirable_NoExclusion(m) == TRUE

LockAcquirable_Barrier(m) == m = "free" /\ \A q \in Providers : taskpc[q] # "calling"

LockAcquirable(m) == m = "free"

Lock(p) ==
    /\ taskpc[p] = "returned"
    /\ LockAcquirable(mu)
    /\ mu' = p
    /\ taskpc' = [taskpc EXCEPT ![p] = "locked"]
    /\ UNCHANGED <<call, credsErr, creds, rpc, responses, result, local, wg, warnings,
                   out, requests, invoked, ret, report, stderr, exitCode>>

Warning(p, e) == [label |-> Label(p), err |-> e]

\* if err != nil: append reads warnings ...; else <p>Out = &quota
Record(p) ==
    /\ taskpc[p] = "locked"
    /\ IF result[p].err # <<>>
         THEN /\ local' = [local EXCEPT ![p] = warnings]
              /\ taskpc' = [taskpc EXCEPT ![p] = "append"]
              /\ UNCHANGED out
         ELSE /\ out' = [out EXCEPT ![p] = Ptr(result[p].quota[1])]
              /\ taskpc' = [taskpc EXCEPT ![p] = "recorded"]
              /\ UNCHANGED local
    /\ UNCHANGED <<call, credsErr, creds, rpc, responses, result, mu, wg, warnings,
                   requests, invoked, ret, report, stderr, exitCode>>

\* ... and the grown slice is assigned to warnings
AppendWarning(p) ==
    /\ taskpc[p] = "append"
    /\ warnings' = Append(local[p], Warning(p, result[p].err[1]))
    /\ local' = [local EXCEPT ![p] = <<>>]
    /\ taskpc' = [taskpc EXCEPT ![p] = "recorded"]
    /\ UNCHANGED <<call, credsErr, creds, rpc, responses, result, mu, wg, out,
                   requests, invoked, ret, report, stderr, exitCode>>

\* the function returns: the deferred mu.Unlock(), then wg.Go's wg.Done()
Return(p) ==
    /\ taskpc[p] = "recorded"
    /\ mu' = "free"
    /\ wg' = wg - 1
    /\ taskpc' = [taskpc EXCEPT ![p] = "done"]
    /\ UNCHANGED <<call, credsErr, creds, rpc, responses, result, local, warnings,
                   out, requests, invoked, ret, report, stderr, exitCode>>

Engine == RunStart \/ GoCopilot \/ GoZAI \/ GoCodex \/ Wait \/ Produce \/ MainExit

Task(p) ==
    Invoke(p) \/ NetReturn(p) \/ Lock(p) \/ Record(p) \/ AppendWarning(p)
      \/ Return(p)

Next == Engine \/ \E p \in Providers : Task(p)

Spec == Init /\ [][Next]_vars

(***************************************************************************)
(* The adapters called directly: GetQuota of one provider, with any        *)
(* credential set and any response.                                        *)
(***************************************************************************)
PercentValues ==
    { JMissing, JNull, JStr(Text("NaN")), JStr(Text("42.5")), JNum(PInf),
      JNum(Fin(-20000)), JNum(Fin(0)), JNum(Fin(33333)), JNum(Fin(66665)),
      JNum(Fin(100000)), JNum(Fin(100004)), JNum(Fin(150000)) }

\* reset times: seconds (codex), milliseconds (zai), text (copilot)
ResetSeconds ==
    { JMissing, JNull, JStr(Text("NaN")), JStr(Text("soon")), JNum(PInf),
      JNum(Fin(5400500)), JNum(Fin(0)) }
ResetMillis ==
    { JMissing, JNull, JStr(Text("NaN")), JStr(Text("soon")), JNum(PInf),
      JNum(Fin(1800500000)), JNum(Fin(-1000)) }
ResetTexts ==
    { JMissing, JNull, JStr(Text("")), JStr(Text("soon")), JNum(Fin(5400000)),
      JStr(ISO(5400)), JStr(ISO(0)) }

Counts ==
    { <<JMissing, JMissing>>, <<JNum(Fin(300000)), JNum(Fin(100000))>>,
      <<JNum(Fin(100000)), JNum(Fin(300500))>> }

CopilotBodies ==
    { GarbageCopilot } \cup
    { CopilotBody(TRUE, JStr(Text("octocat")), JStr(Text("pro")), n[1], n[2], pc, rs) :
        n \in Counts, pc \in PercentValues, rs \in ResetTexts }

UsageDetails ==
    << [modelCode |-> JStr(Text("search")), usage |-> JNum(Fin(3000))],
       [modelCode |-> JMissing, usage |-> JStr(Text("NaN"))] >>

TokenLimits ==
    { Limit(JStr(Text("TOKENS_LIMIT")), rs, pc, <<>>) :
        rs \in ResetMillis, pc \in PercentValues }
TimeLimits ==
    { Limit(JStr(Text("TIME_LIMIT")), JNum(Fin(90500000)), JNum(Fin(10000)), UsageDetails),
      Limit(JStr(Text("TIME_LIMIT")), JMissing, JNum(Fin(150000)), <<>>) }

LimitLists ==
    { <<>> } \cup { <<t>> : t \in TokenLimits } \cup { <<m>> : m \in TimeLimits }
      \cup { <<m, t>> : m \in TimeLimits, t \in TokenLimits }

ZaiBodies ==
    { GarbageZai,
      ZaiBody(TRUE, JFalse, JNum(Fin(200000)), JStr(Text("denied")), JMissing, <<>>),
      ZaiBody(TRUE, JTrue, JNum(Fin(401000)), JStr(Text("expired")), JMissing, <<>>),
      ZaiBody(TRUE, JMissing, JMissing, JMissing, JMissing, <<>>) } \cup
    { ZaiBody(TRUE, JTrue, JNum(Fin(200000)), JStr(Text("ok")), JStr(Text("pro")), ls) :
        ls \in LimitLists }

Windows ==
    { WMissing, WNull, Window("scalar", JMissing, JMissing) } \cup
    { Window("obj", pc, rs) : pc \in PercentValues, rs \in ResetSeconds }

CodexBodies ==
    { GarbageCodex } \cup
    { CodexBody(TRUE, JStr(Text("a@b.c")), JStr(Text("plus")), w, WMissing, WNull) :
        w \in Windows } \cup
    { CodexBody(TRUE, JMissing, JNull, WMissing, w,
                Window("obj", JNum(Fin(0)), JNum(Fin(0)))) :
        w \in {WMissing, Window("obj", JNum(Fin(25000)), JNum(Fin(90000000)))} }

Bodies(p) ==
    CASE p = "copilot" -> CopilotBodies
      [] p = "zai"     -> ZaiBodies
      [] p = "codex"   -> CodexBodies

UnitResponses(p) ==
    { Response("error", 0, Garbage(p)), Response("readerror", 200, Garbage(p)),
      Response("ok", 199, Good(p)), Response("ok", 300, Good(p)),
      Response("ok", 404, Garbage(p)) } \cup
    { Response("ok", 200, b) : b \in Bodies(p) }

UnitNows == {0, 7200}

UnitCredentials(p) ==
    { c \in AllCredentials : \A q \in Providers \ {p} : KeyOf(c, q) = Nil }

UnitInit ==
    /\ credsErr = FALSE
    /\ \E p \in Providers :
          /\ creds \in UnitCredentials(p)
          /\ taskpc = [q \in Providers |-> IF q = p THEN "spawned" ELSE "idle"]
    /\ rpc = "unit"
    /\ responses = [p \in Providers |-> <<>>]
    /\ result = [p \in Providers |-> NoResult]
    /\ local = [p \in Providers |-> <<>>]
    /\ mu = "free"
    /\ wg = 0
    /\ warnings = <<>>
    /\ out = [p \in Providers |-> Nil]
    /\ requests = [p \in Providers |-> <<>>]
    /\ invoked = [p \in Providers |-> 0]
    /\ ret = NoErr
    /\ report = <<>>
    /\ stderr = <<>>
    /\ exitCode = -1
    /\ call = NoCall

UnitReturn(p) == \E resp \in UnitResponses(p), now \in UnitNows : Complete(p, resp, now)

UnitNext == \E p \in Providers : Invoke(p) \/ UnitReturn(p)

AdapterSpec == UnitInit /\ [][UnitNext]_vars

(***************************************************************************)
(* The helpers called directly: FormatTimeUntil on any text and clock      *)
(* reading, maskToken on any token.                                        *)
(***************************************************************************)
MaxDay == 2
MaxTokenLen == 12

\* days of the instants: around the clock readings, around the largest
\* Duration, and 9999-12-31, the last day RFC3339 can express
HelperDays == (-1..MaxDay) \cup {106751, 106752, 2932896}
HelperSeconds == {0, 1, 59, 60, 3599, 3600, 3661, 85636, 85637, 86399}

DateTexts ==
    { Unknown, Text(""), Text("soon") } \cup
    { Instant(d, s) : d \in HelperDays, s \in HelperSeconds }

HelperNows == {0, 59, 90000}

Letters == <<"a", "b", "c", "d", "e", "f", "g", "h", "i", "j", "k", "l", "m", "n">>

\* tokens of every length, all characters distinct
Tokens == { SubSeq(Letters, 1, n) : n \in 1..MaxTokenLen }

HelperInit ==
    /\ credsErr = FALSE
    /\ creds = NoCredentialsLoaded
    /\ rpc = "helper"
    /\ taskpc = [p \in Providers |-> "idle"]
    /\ responses = [p \in Providers |-> <<>>]
    /\ result = [p \in Providers |-> NoResult]
    /\ local = [p \in Providers |-> <<>>]
    /\ mu = "free"
    /\ wg = 0
    /\ warnings = <<>>
    /\ out = [p \in Providers |-> Nil]
    /\ requests = [p \in Providers |-> <<>>]
    /\ invoked = [p \in Providers |-> 0]
    /\ ret = NoErr
    /\ report = <<>>
    /\ stderr = <<>>
    /\ exitCode = -1
    /\ call = NoCall

CallFormatTimeUntil ==
    /\ rpc = "helper"
    /\ \E dateISO \in DateTexts, now \in HelperNows :
          call' = [fn |-> "FormatTimeUntil", dateISO |-> dateISO, now |-> now,
                   ret |-> FormatTimeUntil(dateISO, now)]
    /\ UNCHANGED <<credsErr, creds, rpc, taskpc, responses, result, local, mu, wg,
                   warnings, out, requests, invoked, ret, report, stderr, exitCode>>

CallMaskToken ==
    /\ rpc = "helper"
    /\ \E token \in Tokens :
          call' = [fn |-> "maskToken", token |-> token, ret |-> maskToken(token)]
    /\ UNCHANGED <<credsErr, creds, rpc, taskpc, responses, result, local, mu, wg,
                   warnings, out, requests, invoked, ret, report, stderr, exitCode>>

HelperNext == CallFormatTimeUntil \/ CallMaskToken

HelperSpec == HelperInit /\ [][HelperNext]_vars

(***************************************************************************)
(* Fairness.  The Go scheduler runs every runnable goroutine, and a        *)
(* goroutine blocked in mu.Lock() or wg.Wait() becomes runnable when the   *)
(* mutex is released or the counter reaches zero; nothing makes a network  *)
(* call return, so NetReturn has no fairness condition.                    *)
(***************************************************************************)
LiveKeys == {Nil, Ptr(<<" ">>), Ptr(<<"k">>)}

LiveInit ==
    /\ Init
    /\ \A p \in Providers : KeyOf(creds, p) \in LiveKeys
    /\ creds.CodexAccountID = Nil

FairSpec ==
    /\ LiveInit
    /\ [][Next]_vars
    /\ WF_vars(Engine)
    /\ \A p \in Providers :
          /\ WF_vars(Invoke(p))
          /\ WF_vars(Lock(p))
          /\ WF_vars(Record(p) \/ AppendWarning(p) \/ Return(p))

(***************************************************************************)
(* Vocabulary of the properties.                                           *)
(***************************************************************************)
\* a credential that is absent, or blank once whitespace is trimmed
Blank(key) ==
    key = Nil \/ \A i \in 1..Len(Deref(key)) : IsSpace(Deref(key)[i])

Dispatched(p) == taskpc[p] # "idle"
Joined == rpc \in {"joined", "returned", "exit"}

Failed(p) == result[p].err # <<>>
Succeeded(p) == result[p].quota # <<>>

WarningsOf(w, p) == {i \in DOMAIN w : w[i].label = Label(p)}

\* the (quota, err) of p is recorded, once, under p's identity
RecordedIn(o, w, p) ==
    /\ Succeeded(p) =>
          /\ o = Ptr(result[p].quota[1])
          /\ WarningsOf(w, p) = {}
    /\ Failed(p) =>
          /\ o = Nil
          /\ Cardinality(WarningsOf(w, p)) = 1
          /\ \A i \in WarningsOf(w, p) : w[i] = Warning(p, result[p].err[1])

ReportOut(r, p) ==
    CASE p = "copilot" -> r.copilotOut
      [] p = "zai"     -> r.zaiOut
      [] p = "codex"   -> r.codexOut

\* the errors with which zai.GetQuota and codex.GetQuota refuse a credential
MissingCredentialMessages ==
    { "missing Z.ai API key in credentials", "missing Codex API key in credentials" }

\* a transport failure, a status outside 2xx, or a body that is not JSON
BadResponse(r) ==
    r.transport # "ok" \/ r.status < 200 \/ r.status > 299 \/ ~r.body.valid

\* a percentage as the normaliser leaves it: finite, in [0,100], two decimals
NormalPercent(x) == IsFin(x) /\ x.v >= 0 /\ x.v <= 100000 /\ x.v % 10 = 0

Range(seq) == {seq[i] : i \in DOMAIN seq}

WindowPercents(w) == Range(w.UsedPercent) \cup Range(w.RemainingPercent)

Percents(p, q) ==
    CASE p = "copilot" -> {q.RequestsUsedPercent, q.RequestsRemainingPercent}
      [] p = "zai"     -> {q.TokenQuota.UsedPercent, q.TokenQuota.RemainingPercent,
                           q.MCPQuota.UsedPercent, q.MCPQuota.RemainingPercent}
      [] p = "codex"   -> WindowPercents(q.RateLimitPrimaryWindow)
                            \cup WindowPercents(q.RateLimitSecondaryWindow)
                            \cup WindowPercents(q.CodeReviewPrimaryWindow)

\* the (used, remaining) percentages of the windows of a Quota that carry both
PairsOf(w) ==
    IF w.UsedPercent # <<>> /\ w.RemainingPercent # <<>>
      THEN {<<w.UsedPercent[1], w.RemainingPercent[1]>>}
    ELSE {}

WindowPairs(p, q) ==
    CASE p = "copilot" -> {<<q.RequestsUsedPercent, q.RequestsRemainingPercent>>}
      [] p = "zai"     -> {<<q.TokenQuota.UsedPercent, q.TokenQuota.RemainingPercent>>,
                           <<q.MCPQuota.UsedPercent, q.MCPQuota.RemainingPercent>>}
      [] p = "codex"   -> PairsOf(q.RateLimitPrimaryWindow)
                            \cup PairsOf(q.RateLimitSecondaryWindow)
                            \cup PairsOf(q.CodeReviewPrimaryWindow)

\* used + remaining = 100 when used is within [0,100]
SumsToHundred(used, remaining) ==
    (IsFin(used) /\ used.v >= 0 /\ used.v <= 100000) =>
        (IsFin(remaining) /\ used.v + remaining.v = 100000)

\* a reset timestamp that is absent, null, non-finite or not of the kind the
\* provider sends: RFC3339 text for copilot, a number for zai and codex
BadTimestamp(p, v) ==
    IF p = "copilot" THEN ~(v.k = "str" /\ v.s.ts # <<>>)
    ELSE CASE v.k = "num" -> ~IsFin(v.f)
           [] v.k = "str" -> v.s.text # "42.5"
           [] OTHER       -> TRUE

\* the reset field of a window of the response, with what the Quota has for it
Reset(src, at, in) == [src |-> src, at |-> at, in |-> in]

CodexResets(body, path, w) ==
    IF CodexWindow(body, path).k = "obj"
      THEN {Reset(CodexWindow(body, path).reset_at, w.ResetAt, w.ResetIn)}
    ELSE {}

Resets(p, body, q) ==
    CASE p = "copilot" ->
           {Reset(CopilotGet(body, "quota_reset_date_utc"), <<q.ResetAt>>, <<q.ResetIn>>)}
      [] p = "zai" ->
           {Reset(findLimitByType(ZaiLimits(body), "TOKENS_LIMIT").nextResetTime,
                  <<q.TokenQuota.ResetAt>>, <<q.TokenQuota.ResetIn>>),
            Reset(findLimitByType(ZaiLimits(body), "TIME_LIMIT").nextResetTime,
                  <<q.MCPQuota.ResetAt>>, <<q.MCPQuota.ResetIn>>)}
      [] p = "codex" ->
           CodexResets(body, "primary_window", q.RateLimitPrimaryWindow)
             \cup CodexResets(body, "secondary_window", q.RateLimitSecondaryWindow)
             \cup CodexResets(body, "code_review_window", q.CodeReviewPrimaryWindow)

\* a window of a Quota with what the response has for it: present says that
\* the response carries the window's source data, zero that the data say
\* nothing is used; the four attributes are <<>> when absent
Win(present, zero, used, remaining, at, in) ==
    [present |-> present, zero |-> zero, attrs |-> <<used, remaining, at, in>>]

AllAbsent(w) == \A i \in 1..4 : w.attrs[i] = <<>>
NoneAbsent(w) == \A i \in 1..4 : w.attrs[i] # <<>>

CopilotWin(body, q) ==
    Win(\E f \in {"entitlement", "remaining", "percent_remaining",
                  "quota_reset_date_utc"} : JExists(CopilotGet(body, f)),
        CopilotGet(body, "percent_remaining") = JNum(Fin(100000)),
        <<q.RequestsUsedPercent>>, <<q.RequestsRemainingPercent>>,
        <<q.ResetAt>>, <<q.ResetIn>>)

ZaiWin(body, limitType, w) ==
    LET found == {i \in DOMAIN ZaiLimits(body) :
                    ZaiLimits(body)[i].type = JStr(Text(limitType))}
    IN  Win(found # {},
            \E i \in found : ZaiLimits(body)[i].percentage = JNum(Fin(0)),
            <<w.UsedPercent>>, <<w.RemainingPercent>>, <<w.ResetAt>>, <<w.ResetIn>>)

CodexWin(body, path, w) ==
    Win(CodexWindow(body, path).k \in {"obj", "scalar"},
        CodexWindow(body, path).k = "obj"
            /\ CodexWindow(body, path).used_percent = JNum(Fin(0)),
        w.UsedPercent, w.RemainingPercent, w.ResetAt, w.ResetIn)

Wins(p, body, q) ==
    CASE p = "copilot" -> {CopilotWin(body, q)}
      [] p = "zai" ->
           {ZaiWin(body, "TOKENS_LIMIT", q.TokenQuota),
            ZaiWin(body, "TIME_LIMIT", q.MCPQuota)}
      [] p = "codex" ->
           {CodexWin(body, "primary_window", q.RateLimitPrimaryWindow),
            CodexWin(body, "secondary_window", q.RateLimitSecondaryWindow),
            CodexWin(body, "code_review_window", q.CodeReviewPrimaryWindow)}

\* the time from the clock reading now to the instant t, as days and seconds
Elapsed(t, now) ==
    LET s == t[2] - (now % 86400)
        d == t[1] - (now \div 86400)
    IN  IF s < 0 THEN <<d - 1, s + 86400>> ELSE <<d, s>>

\* "Xd Yh", "Xh Ym" or "Xm" for a positive time of d[1] days and d[2]
\* seconds: with m its whole minutes, m >= 1440 iff d[1] >= 1, m div 1440 =
\* d[1], (m mod 1440) div 60 = d[2] div 3600, and below a day m = d[2] div 60
Compact(d) ==
    IF d[1] >= 1 THEN Dur("dh", d[1], d[2] \div 3600)
    ELSE IF d[2] >= 3600 THEN Dur("hm", d[2] \div 3600, (d[2] % 3600) \div 60)
    ELSE Dur("m", d[2] \div 60, 0)

TimeUntil(d) ==
    IF d[1] < 0 \/ d = <<0, 0>> THEN Dur("now", 0, 0) ELSE Compact(d)

\* d, or the largest Duration when d is longer
Capped(d) ==
    IF d[1] > 106751 \/ (d[1] = 106751 /\ d[2] > 85636) THEN <<106751, 85636>> ELSE d

(***************************************************************************)
(* C1.  With a credential set in which every provider's credential is      *)
(* absent or blank after trimming, run() goes from its start straight to   *)
(* returning the "no provider credentials" error (exit code 1): no         *)
(* goroutine is dispatched, no GetQuota is invoked, no request is sent.    *)
(***************************************************************************)
C1_NoCredentialsFailsFast ==
    (~credsErr /\ \A p \in Providers : Blank(KeyOf(creds, p))) =>
        /\ \A p \in Providers :
              taskpc[p] = "idle" /\ invoked[p] = 0 /\ requests[p] = <<>>
        /\ rpc \in {"start", "returned", "exit"}
        /\ rpc # "start" => ret = ErrNoCredentials /\ report = <<>>
        /\ rpc = "exit" => exitCode = 1 /\ stderr = <<ErrNoCredentials>>

C1_Witness ==
    /\ rpc = "exit"
    /\ ret = ErrNoCredentials
    /\ creds.CopilotAPIKey = Nil
    /\ creds.ZAIAPIKey = Ptr(<<" ">>)
    /\ creds.CodexAPIKey = Ptr(<<>>)

(***************************************************************************)
(* C2.  GetQuota of a provider is invoked only if the provider's           *)
(* credential is present and non-blank after trimming; a provider whose    *)
(* credential is absent or blank has no Quota and no warning, neither in   *)
(* run()'s variables nor in what printReport receives.                     *)
(***************************************************************************)
C2_OnlyCredentialedProvidersAppear ==
    \A p \in Providers :
        Blank(KeyOf(creds, p)) =>
            /\ taskpc[p] = "idle" /\ invoked[p] = 0 /\ requests[p] = <<>>
            /\ out[p] = Nil
            /\ WarningsOf(warnings, p) = {}
            /\ report # <<>> =>
                  /\ ReportOut(report[1], p) = Nil
                  /\ WarningsOf(report[1].warnings, p) = {}

C2_Witness ==
    /\ rpc = "exit"
    /\ report # <<>>
    /\ creds.CopilotAPIKey = Ptr(<<" ">>)
    /\ Failed("zai")
    /\ Succeeded("codex")

(***************************************************************************)
(* C3.  Once wg.Wait() has returned (and so whenever run() produces the    *)
(* report or the all-failed error), every dispatched goroutine has         *)
(* finished and its result is recorded: no goroutine is still running.     *)
(***************************************************************************)
C3_OutcomeOnlyAfterJoin ==
    Joined =>
        \A p \in Providers :
            Dispatched(p) =>
                /\ taskpc[p] = "done"
                /\ RecordedIn(out[p], warnings, p)

C3_Witness ==
    /\ rpc = "returned"
    /\ \A p \in Providers : taskpc[p] = "done"
    /\ Failed("copilot")
    /\ Succeeded("zai")
    /\ Succeeded("codex")

(***************************************************************************)
(* C4.  Once joined, under every interleaving, each dispatched provider    *)
(* has exactly one recorded outcome under its own identity: its Quota in   *)
(* its own variable and no warning, or exactly one warning carrying its    *)
(* label and its error and no Quota; the warnings are exactly the failed   *)
(* providers' (none lost, duplicated or overwritten).                      *)
(***************************************************************************)
C4_OneOutcomePerProvider ==
    Joined =>
        /\ \A p \in Providers :
              IF Dispatched(p)
                THEN /\ Succeeded(p) # Failed(p)
                     /\ RecordedIn(out[p], warnings, p)
                ELSE out[p] = Nil /\ WarningsOf(warnings, p) = {}
        /\ Len(warnings) = Cardinality({p \in Providers : Dispatched(p) /\ Failed(p)})

C4_Witness ==
    /\ rpc = "joined"
    /\ Failed("copilot")
    /\ Failed("zai")
    /\ Succeeded("codex")
    /\ Len(warnings) = 2
    /\ warnings[1].label = Label("zai")

(***************************************************************************)
(* C5.  When every dispatched adapter failed, the error run() returns to   *)
(* main carries one failure message for each dispatched provider.          *)
(***************************************************************************)
C5_AllFailedCarriesMessages ==
    (rpc \in {"returned", "exit"} /\ ret.msg = ErrAllFailed.msg) =>
        \A p \in Providers :
            Dispatched(p) =>
                /\ Cardinality(WarningsOf(ret.args, p)) = 1
                /\ \A i \in WarningsOf(ret.args, p) :
                      ret.args[i] = Warning(p, result[p].err[1])

(***************************************************************************)
(* C6.  The process exits with nil error and code 0 exactly when some      *)
(* provider's GetQuota returned a Quota; then printReport receives every   *)
(* Quota obtained and exactly one warning per failed provider, and the     *)
(* only errors run() returns are the run-level ones.                       *)
(***************************************************************************)
C6_SuccessIffSomeQuota ==
    rpc = "exit" =>
        /\ (ret = NoErr) <=> (\E p \in Providers : Succeeded(p))
        /\ (exitCode = 0) <=> (ret = NoErr)
        /\ ret \in {NoErr, ErrLoad, ErrNoCredentials, ErrAllFailed}
        /\ (ret = NoErr) <=> (report # <<>>)
        /\ ret = NoErr =>
              /\ \A p \in Providers :
                    IF Dispatched(p)
                      THEN RecordedIn(ReportOut(report[1], p), report[1].warnings, p)
                      ELSE /\ ReportOut(report[1], p) = Nil
                           /\ WarningsOf(report[1].warnings, p) = {}
              /\ Len(report[1].warnings) =
                    Cardinality({p \in Providers : Dispatched(p) /\ Failed(p)})

C6_Witness ==
    /\ rpc = "exit"
    /\ exitCode = 0
    /\ Succeeded("copilot")
    /\ Failed("zai")
    /\ Succeeded("codex")
    /\ Len(report[1].warnings) = 1

(***************************************************************************)
(* C7.  A goroutine whose GetQuota has returned goes on to record its      *)
(* result and finish, whatever its siblings do (even if their calls never  *)
(* return); and if the call of every dispatched adapter eventually         *)
(* returns, the process eventually exits with its outcome.                 *)
(***************************************************************************)
C7_NoTaskWaitsOnSibling ==
    /\ \A p \in Providers : (taskpc[p] = "returned") ~> (taskpc[p] = "done")
    /\ (\A p \in Providers : <>[](taskpc[p] # "calling")) => <>(rpc = "exit")

C7_Witness ==
    /\ taskpc["codex"] = "done"
    /\ Succeeded("codex")
    /\ taskpc["copilot"] = "calling"
    /\ taskpc["zai"] = "returned"
    /\ Failed("zai")

(***************************************************************************)
(* C8.  GetQuota of each provider, invoked with a credential that is       *)
(* absent, empty or blank, returns its missing-credential error and sends  *)
(* no request.                                                             *)
(***************************************************************************)
C8_BlankCredentialNeverSends ==
    \A p \in Providers :
        (invoked[p] > 0 /\ Blank(KeyOf(creds, p))) =>
            /\ requests[p] = <<>>
            /\ taskpc[p] = "returned"
            /\ Failed(p)
            /\ result[p].err[1].msg \in MissingCredentialMessages

(***************************************************************************)
(* C9.  When the call of a provider fails in transport, answers with a     *)
(* status outside 2xx or with a body that is not JSON, GetQuota returns an *)
(* error and no Quota, and once the goroutine is done the provider has no  *)
(* Quota and exactly one warning under its label.                          *)
(***************************************************************************)
C9_BadResponseIsOneLabeledFailure ==
    \A p \in Providers :
        (responses[p] # <<>> /\ BadResponse(responses[p][1])) =>
            /\ Failed(p) /\ ~Succeeded(p)
            /\ taskpc[p] = "done" =>
                  /\ out[p] = Nil
                  /\ Cardinality(WarningsOf(warnings, p)) = 1

(***************************************************************************)
(* C10.  Every used-percentage and remaining-percentage present in a Quota *)
(* that GetQuota returns (here: when called with a usable credential) is a *)
(* finite number in [0,100] with at most two decimal digits.               *)
(***************************************************************************)
C10_PercentagesNormalised ==
    \A p \in Providers :
        (Succeeded(p) /\ ~Blank(KeyOf(creds, p))) =>
            \A x \in Percents(p, result[p].quota[1]) : NormalPercent(x)

(***************************************************************************)
(* C11.  In every Quota that GetQuota returns (here: when called with a    *)
(* usable credential), the remaining-percentage of every window is         *)
(* ClampPercent(100 - used-percentage), and used + remaining = 100 for     *)
(* every window whose used-percentage is within [0,100].                   *)
(***************************************************************************)
C11_RemainingDerivedFromUsed ==
    \A p \in Providers :
        (Succeeded(p) /\ ~Blank(KeyOf(creds, p))) =>
            \A w \in WindowPairs(p, result[p].quota[1]) :
                /\ w[2] = ClampPercent(HundredMinus(w[1]))
                /\ SumsToHundred(w[1], w[2])

(***************************************************************************)
(* C12.  In every Quota that GetQuota returns (here: when called with a    *)
(* usable credential), a window whose reset timestamp in the response is   *)
(* absent, null, non-finite or not a timestamp of the expected kind has    *)
(* the reset-instant "unknown" and the reset-remaining "unknown".          *)
(***************************************************************************)
C12_BadResetIsUnknown ==
    \A p \in Providers :
        (Succeeded(p) /\ ~Blank(KeyOf(creds, p))) =>
            \A r \in Resets(p, responses[p][1].body, result[p].quota[1]) :
                BadTimestamp(p, r.src) =>
                    /\ r.at = <<Unknown>>
                    /\ r.in = <<Dur("unknown", 0, 0)>>

(***************************************************************************)
(* C13.  In every Quota that GetQuota returns (here: when called with a    *)
(* usable credential), a window has all four attributes absent exactly     *)
(* when the response carries none of its source data; such a window is not *)
(* reported as 0% used and 100% remaining; a window whose source data say  *)
(* that nothing is used has 0% used; and no window has only some of its    *)
(* four attributes absent.                                                 *)
(***************************************************************************)
C13_UnavailableIffNoSourceData ==
    \A p \in Providers :
        (Succeeded(p) /\ ~Blank(KeyOf(creds, p))) =>
            \A w \in Wins(p, responses[p][1].body, result[p].quota[1]) :
                /\ AllAbsent(w) <=> ~w.present
                /\ ~w.present =>
                      ~(w.attrs[1] = <<Fin(0)>> /\ w.attrs[2] = <<Fin(100000)>>)
                /\ w.zero => w.attrs[1] = <<Fin(0)>>
                /\ AllAbsent(w) \/ NoneAbsent(w)

C15_MaskHidesACharacter ==
    call.fn = "maskToken" =>
        \E i \in 1..Len(call.token) : call.token[i] \notin Range(call.ret)

====
